---- MODULE Spec2Model ----
(***************************************************************************)
(* A model of fishaudio_livekit/tts.py: the fade-in processor, the         *)
(* one-shot ("chunked") synthesis call that bridges a blocking chunk       *)
(* generator running on a worker thread into the event loop, and the       *)
(* streaming call that runs a send loop and a receive loop over one        *)
(* websocket.                                                              *)
(*                                                                         *)
(* Audio chunks are sequences of bytes (0..255); text is a sequence of     *)
(* one-character strings.  The emitter is modelled by the log of the calls *)
(* made on it.                                                             *)
(***************************************************************************)
EXTENDS Integers, Sequences, FiniteSets, TLC

VARIABLES
    mode,               \* "chunked" (TTS.synthesize) or "stream" (TTS.stream)
    fade_duration_ms,   \* self._fade_duration_ms (0 also stands for None)
    fade_processor,     \* the _FadeInProcessor of the call, if any
    emitter,            \* calls made on output_emitter, in order
    result,             \* "running", "ok", or the kind of exception raised
    ended_before,       \* how many end_input calls had been made when _run left
    \* ---- _FadingChunkedStream._run
    source,             \* chunks self._ws.tts(...) yields, in order
    source_raises,      \* whether it raises after the last of them
    wpc,                \* position of run_tts on the worker thread
    widx,               \* number of chunks run_tts has taken from the source
    ready,              \* callbacks handed to loop.call_soon_threadsafe
    courier_queue,      \* courier_queue
    pc,                 \* position of the coroutine _run
    error,              \* the local `error`
    \* ---- _FadingStream._run
    input,              \* what self._input_ch has delivered: fragments, flushes
    incoming,           \* what the awaits of ws.receive_bytes() have delivered
    input_limit,        \* most items self._input_ch delivers in this call
    recv_limit,         \* most frames the backend sends before an ending event
    main_pc,            \* position of the coroutine _run
    exc,                \* the exception propagating in _run ("" for none)
    ws_open,            \* whether the websocket is open
    input_ended,        \* whether the async for of _send_loop has ended
    pending,            \* the local `pending`
    started,            \* the local `started`
    text_raw,           \* the local `text_raw` of the running _flush_pending
    send_pc,            \* position of send_task
    send_cancel,        \* send_task.cancel() was called and not yet delivered
    sent,               \* frames sent on the websocket, in order
    marks,              \* Len(sent) at each call of self._mark_started()
    stop_sends,         \* number of times line 293 was reached
    recv_pc,            \* position of recv_task
    recv_end,           \* what ended _recv_loop ("" while it runs)
    recv_cancel,        \* recv_task.cancel() was called and not yet delivered
    \* ---- a _FadeInProcessor driven call by call
    fed,                \* the chunks passed to process(), in order
    returned,           \* what each call returned
    counts              \* self._processed_frames after each call

chunked_vars ==
    <<source, source_raises, wpc, widx, ready, courier_queue, pc, error>>

common_vars == <<mode, fade_duration_ms, fade_processor, emitter, result,
                 ended_before>>

script_vars == <<input, incoming, input_limit, recv_limit>>
main_vars == <<main_pc, exc, ws_open, send_cancel, recv_cancel>>
send_vars == <<input_ended, pending, started, text_raw, send_pc, sent,
               marks, stop_sends>>
recv_vars == <<recv_pc, recv_end>>

stream_vars == <<script_vars, main_vars, send_vars, recv_vars>>

fade_vars == <<fed, returned, counts>>

vars == <<common_vars, chunked_vars, stream_vars, fade_vars>>

----------------------------------------------------------------------------
(* Bounds of the model. *)

\* longest sequence of chunks the blocking source yields
MaxChunks == 3
\* sample rate of the call (self._opts.sample_rate), in frames per second
SampleRate == 1000
\* the fade duration, in ms, of a call that fades
FadeMs == 3
\* SpecStream: longest sequence of fragments and flush markers given to the
\* call, and most frames the backend delivers before the event that ends the
\* receiving
MaxText == 1
MaxRecv == 2
\* SpecStreamOut: the same two bounds
MaxInput == 4
MaxRecvOut == 0
\* SpecFade: most calls of process() on one processor, and a sample rate so
\* low that the fade window has no frame
MaxCalls == 3
\* SpecStreamLive: inputs given to the call, frames before the ending event
MaxTextLive == 1
MaxRecvLive == 1
LowSampleRate == 100

----------------------------------------------------------------------------
(* Helpers *)

Min(a, b) == IF a <= b THEN a ELSE b
Max(a, b) == IF a >= b THEN a ELSE b

\* Python's int(): truncation toward zero of the quotient a / b, b > 0.
\* The source computes the quotient in floating point; for the sample range
\* and the fade lengths of this model the float result truncates to the same
\* integer as the exact quotient.
TruncDiv(a, b) == IF a >= 0 THEN a \div b ELSE -((-a) \div b)

SeqsUpTo(S, n) == UNION {[1..k -> S] : k \in 0..n}

----------------------------------------------------------------------------
(* _FadeInProcessor *)

NUM_CHANNELS == 1
sample_width == 2

num_channels == Max(1, NUM_CHANNELS)
frame_width == sample_width * num_channels

\* int(sample_rate * duration_ms / 1000), clamped at 0
FadeFrames(sample_rate, duration_ms) ==
    Max(0, TruncDiv(sample_rate * duration_ms, 1000))

\* array("h").frombytes: little-endian signed 16-bit samples
FromBytes(chunk) ==
    [i \in 1..(Len(chunk) \div sample_width) |->
        LET u == chunk[2 * i - 1] + 256 * chunk[2 * i]
        IN  IF u >= 32768 THEN u - 65536 ELSE u]

\* array("h").tobytes
ToBytes(samples) ==
    [k \in 1..(sample_width * Len(samples)) |->
        LET s == samples[(k + 1) \div 2]
            u == IF s < 0 THEN s + 65536 ELSE s
        IN  IF k % 2 = 1 THEN u % 256 ELSE u \div 256]

\* a ramp that reaches 1.0 at the last frame of the window
Scale_reaches_one(sample, fade_position, fade_frames) ==
    IF fade_position + 1 > fade_frames
    THEN sample
    ELSE TruncDiv(sample * (fade_position + 1), fade_frames)

\* int(samples[idx] * factor) with factor = fade_position / fade_frames,
\* clamped to 1.0
Scale(sample, fade_position, fade_frames) ==
    IF fade_position > fade_frames
    THEN sample
    ELSE TruncDiv(sample * fade_position, fade_frames)

\* process(chunk) on a processor with the given counters: the bytes returned
\* and the new value of _processed_frames.
process(chunk, processed_frames, fade_frames) ==
    IF Len(chunk) = 0 \/ fade_frames <= 0
    THEN [out |-> chunk, processed_frames |-> processed_frames]
    ELSE IF Len(chunk) % frame_width # 0
    THEN [out |-> chunk, processed_frames |-> processed_frames]
    ELSE
      LET frame_count == Len(chunk) \div frame_width
          fade_remaining == fade_frames - processed_frames
          apply_frames == Min(frame_count, fade_remaining)
      IN  IF processed_frames >= fade_frames \/ frame_count = 0
          THEN [out |-> chunk,
                processed_frames |-> processed_frames + frame_count]
          ELSE IF apply_frames <= 0
          THEN [out |-> chunk,
                processed_frames |-> processed_frames + frame_count]
          ELSE
            LET samples == FromBytes(chunk)
                faded ==
                  [idx \in 1..Len(samples) |->
                     LET frame_idx == (idx - 1) \div num_channels
                     IN  IF frame_idx < apply_frames
                         THEN Scale(samples[idx],
                                    processed_frames + frame_idx, fade_frames)
                         ELSE samples[idx]]
            IN  [out |-> ToBytes(faded),
                 processed_frames |-> processed_frames + frame_count]

\* fade_processor = _FadeInProcessor(...) if self._fade_duration_ms and
\* self._fade_duration_ms > 0 else None
NewFadeProcessor(duration_ms) ==
    IF duration_ms # 0 /\ duration_ms > 0
    THEN [present |-> TRUE,
          fade_frames |-> FadeFrames(SampleRate, duration_ms),
          processed_frames |-> 0]
    ELSE [present |-> FALSE, fade_frames |-> 0, processed_frames |-> 0]

\* processed = fade_processor.process(x) if fade_processor else x
Processed(fp, chunk) ==
    IF fp.present
    THEN process(chunk, fp.processed_frames, fp.fade_frames).out
    ELSE chunk

AfterProcess(fp, chunk) ==
    IF fp.present
    THEN [fp EXCEPT !.processed_frames =
            process(chunk, fp.processed_frames, fp.fade_frames).processed_frames]
    ELSE fp

----------------------------------------------------------------------------
(* The output emitter: the log of the calls made on it. *)

Call(op, data) == [op |-> op, data |-> data]

EmitInitialize == Call("initialize", <<>>)
EmitStartSegment == Call("start_segment", <<>>)
EmitPush(data) == Call("push", data)
EmitEndInput == Call("end_input", <<>>)

\* the data of the push calls of a log, in order
RECURSIVE Pushes(_)
Pushes(log) ==
    IF log = <<>> THEN <<>>
    ELSE IF Head(log).op = "push"
         THEN <<Head(log).data>> \o Pushes(Tail(log))
         ELSE Pushes(Tail(log))

Count(log, op) == Cardinality({i \in 1..Len(log) : log[i].op = op})

----------------------------------------------------------------------------
(* _FadingChunkedStream._run and its worker run_tts *)

\* chunks the blocking source may yield: empty, misaligned, one frame, two
\* frames (samples 256 and -1)
Chunks == {<<>>, <<7>>, <<100, 0>>, <<0, 1, 255, 255>>}

FadeDurations == {0, FadeMs}

Item(kind, data) == [kind |-> kind, data |-> data]
sentinel == Item("sentinel", <<>>)
ExcItem == Item("exception", <<>>)

InitCommon(m, durations) ==
    /\ mode = m
    /\ fade_duration_ms \in durations
    /\ fade_processor = NewFadeProcessor(0)
    /\ emitter = <<>>
    /\ result = "running"
    /\ ended_before = 0

StreamIdle ==
    /\ input = <<>>
    /\ incoming = <<>>
    /\ input_limit = 0
    /\ recv_limit = 0
    /\ main_pc = "idle"
    /\ exc = ""
    /\ ws_open = FALSE
    /\ input_ended = FALSE
    /\ pending = <<>>
    /\ started = FALSE
    /\ text_raw = <<>>
    /\ send_pc = "idle"
    /\ send_cancel = FALSE
    /\ sent = <<>>
    /\ marks = <<>>
    /\ stop_sends = 0
    /\ recv_pc = "idle"
    /\ recv_end = ""
    /\ recv_cancel = FALSE

FadeIdle ==
    /\ fed = <<>>
    /\ returned = <<>>
    /\ counts = <<>>

ChunkedIdle ==
    /\ source = <<>>
    /\ source_raises = FALSE
    /\ wpc = "idle"
    /\ widx = 0
    /\ ready = <<>>
    /\ courier_queue = <<>>
    /\ pc = "idle"
    /\ error = FALSE

InitChunked ==
    /\ InitCommon("chunked", FadeDurations)
    /\ StreamIdle
    /\ FadeIdle
    /\ source \in SeqsUpTo(Chunks, MaxChunks)
    /\ source_raises \in BOOLEAN
    /\ wpc = "idle"
    /\ widx = 0
    /\ ready = <<>>
    /\ courier_queue = <<>>
    /\ pc = "start"
    /\ error = FALSE

\* _run leaves: normally, or by raising an exception of the given kind
Leave(kind) ==
    /\ result' = kind
    /\ ended_before' = Count(emitter', "end_input")

\* lines 123-173: the processor and the request are built, the worker is
\* submitted to the executor and the emitter is initialized
ChunkedStart ==
    /\ mode = "chunked" /\ pc = "start"
    /\ fade_processor' = NewFadeProcessor(fade_duration_ms)
    /\ wpc' = "iterate"
    /\ emitter' = Append(emitter, EmitInitialize)
    /\ pc' = "get"
    /\ UNCHANGED <<mode, fade_duration_ms, result, ended_before, source,
                   source_raises, widx, ready, courier_queue, error>>
    /\ UNCHANGED <<stream_vars, fade_vars>>

\* line 159-160: the source yields its next chunk; the worker schedules
\* courier_queue.put_nowait(chunk) on the loop
WorkerYield ==
    /\ wpc = "iterate" /\ widx < Len(source)
    /\ ready' = Append(ready, Item("chunk", source[widx + 1]))
    /\ widx' = widx + 1
    /\ UNCHANGED <<common_vars, source, source_raises, wpc,
                   courier_queue, pc, error>>
    /\ UNCHANGED <<stream_vars, fade_vars>>

\* a worker whose except clause drops the exception
WorkerRaise_swallow ==
    /\ wpc = "iterate" /\ widx = Len(source) /\ source_raises
    /\ wpc' = "finally"
    /\ UNCHANGED <<common_vars, source, source_raises, widx, ready,
                   courier_queue, pc, error>>
    /\ UNCHANGED <<stream_vars, fade_vars>>

\* line 161-162: the source raises; the exception is scheduled as a value
WorkerRaise ==
    /\ wpc = "iterate" /\ widx = Len(source) /\ source_raises
    /\ ready' = Append(ready, ExcItem)
    /\ wpc' = "finally"
    /\ UNCHANGED <<common_vars, source, source_raises, widx,
                   courier_queue, pc, error>>
    /\ UNCHANGED <<stream_vars, fade_vars>>

\* line 159: the source is exhausted
WorkerExhaust ==
    /\ wpc = "iterate" /\ widx = Len(source) /\ ~source_raises
    /\ wpc' = "finally"
    /\ UNCHANGED <<common_vars, source, source_raises, widx,
                   ready, courier_queue, pc, error>>
    /\ UNCHANGED <<stream_vars, fade_vars>>

\* a worker that puts the sentinel on the queue itself instead of scheduling
\* the put on the loop
WorkerFinally_direct ==
    /\ wpc = "finally"
    /\ courier_queue' = Append(courier_queue, sentinel)
    /\ wpc' = "done"
    /\ UNCHANGED <<common_vars, source, source_raises, widx, ready, pc, error>>
    /\ UNCHANGED <<stream_vars, fade_vars>>

\* line 163-164: the sentinel is scheduled, run_tts returns
WorkerFinally ==
    /\ wpc = "finally"
    /\ ready' = Append(ready, sentinel)
    /\ wpc' = "done"
    /\ UNCHANGED <<common_vars, source, source_raises, widx,
                   courier_queue, pc, error>>
    /\ UNCHANGED <<stream_vars, fade_vars>>

\* the loop runs the oldest scheduled callback: courier_queue.put_nowait(item)
LoopPutNowait ==
    /\ ready # <<>>
    /\ courier_queue' = Append(courier_queue, Head(ready))
    /\ ready' = Tail(ready)
    /\ UNCHANGED <<common_vars, source, source_raises, wpc,
                   widx, pc, error>>
    /\ UNCHANGED <<stream_vars, fade_vars>>

\* lines 176-186: one turn of the consuming loop
ConsumerGet ==
    /\ mode = "chunked" /\ pc = "get" /\ courier_queue # <<>>
    /\ LET item == Head(courier_queue) IN
       /\ courier_queue' = Tail(courier_queue)
       /\ IF item = sentinel
          THEN /\ pc' = "await_worker"
               /\ UNCHANGED <<error, fade_processor, emitter>>
          ELSE IF item.kind = "exception"
          THEN /\ error' = TRUE
               /\ UNCHANGED <<pc, fade_processor, emitter>>
          ELSE IF ~error
          THEN /\ emitter' =
                     Append(emitter, EmitPush(Processed(fade_processor, item.data)))
               /\ fade_processor' = AfterProcess(fade_processor, item.data)
               /\ UNCHANGED <<pc, error>>
          ELSE UNCHANGED <<pc, error, fade_processor, emitter>>
    /\ UNCHANGED <<mode, fade_duration_ms, result, ended_before, source,
                   source_raises, wpc, widx, ready>>
    /\ UNCHANGED <<stream_vars, fade_vars>>

\* lines 188-193: await worker; raise error (converted by line 193) or
\* end_input
ConsumerFinish ==
    /\ mode = "chunked" /\ pc = "await_worker" /\ wpc = "done"
    /\ pc' = "done"
    /\ IF error
       THEN /\ emitter' = emitter
            /\ Leave("APIConnectionError")
       ELSE /\ emitter' = Append(emitter, EmitEndInput)
            /\ Leave("ok")
    /\ UNCHANGED <<mode, fade_duration_ms, fade_processor, source,
                   source_raises, wpc, widx, ready,
                   courier_queue, error>>
    /\ UNCHANGED <<stream_vars, fade_vars>>

NextChunked ==
    \/ ChunkedStart
    \/ WorkerYield
    \/ WorkerRaise
    \/ WorkerExhaust
    \/ WorkerFinally
    \/ LoopPutNowait
    \/ ConsumerGet
    \/ ConsumerFinish

SpecChunked == InitChunked /\ [][NextChunked]_vars

----------------------------------------------------------------------------
(* _FadingStream._run: text, frames and the scripts of a call *)

\* an item of self._input_ch: a text fragment or a _FlushSentinel
TextItem(t) == [flush |-> FALSE, text |-> t]
FlushSentinel == [flush |-> TRUE, text |-> <<>>]

Texts == {<<" ">>, <<"h", "i">>}
Items == {FlushSentinel} \cup {TextItem(t) : t \in Texts}

Whitespace == {" "}

\* "".join(pending)
RECURSIVE Join(_)
Join(parts) ==
    IF parts = <<>> THEN <<>> ELSE Head(parts) \o Join(Tail(parts))

RECURSIVE LStrip(_)
LStrip(t) ==
    IF t # <<>> /\ Head(t) \in Whitespace THEN LStrip(Tail(t)) ELSE t

RECURSIVE RStrip(_)
RStrip(t) ==
    IF t # <<>> /\ t[Len(t)] \in Whitespace
    THEN RStrip(SubSeq(t, 1, Len(t) - 1))
    ELSE t

\* str.strip()
Strip(t) == RStrip(LStrip(t))

\* frames the client sends: ormsgpack.packb({"event": ..., ...})
Frame(event, text) == [event |-> event, text |-> text]
StartFrame == Frame("start", <<>>)
TextFrame(t) == Frame("text", t)
FlushFrame == Frame("flush", <<>>)
StopFrame == Frame("stop", <<>>)

\* how an await of ws.send_bytes(...) may end
SendOutcomes == {"ok", "LocalProtocolError", "WebSocketNetworkError"}

\* how entering the client and aconnect_ws(...) may end
ConnectOutcomes ==
    {"ok", "WebSocketUpgradeError", "WebSocketNetworkError", "HTTPError",
     "TimeoutError"}

\* what an await of ws.receive_bytes() may deliver: a frame that decodes to a
\* map (its "audio" value may be absent), a frame that does not decode, a
\* disconnect, a network error.  A wait that delivers nothing times out.
Payload(some, bytes) == [some |-> some, bytes |-> bytes]
NoPayload == Payload(FALSE, <<>>)
Msg(kind, event, audio, reason) ==
    [kind |-> kind, event |-> event, audio |-> audio, reason |-> reason]

AudioA == Msg("frame", "audio", Payload(TRUE, <<100, 0>>), "")
AudioB == Msg("frame", "audio", Payload(TRUE, <<0, 1, 255, 255>>), "")
AudioEmpty == Msg("frame", "audio", Payload(TRUE, <<>>), "")
AudioMissing == Msg("frame", "audio", NoPayload, "")
UnknownEvent == Msg("frame", "log", NoPayload, "")
FinishStop == Msg("frame", "finish", NoPayload, "stop")
FinishError == Msg("frame", "finish", NoPayload, "error")
Malformed == Msg("malformed", "", NoPayload, "")
Disconnect == Msg("WebSocketDisconnect", "", NoPayload, "")
NetworkError == Msg("WebSocketNetworkError", "", NoPayload, "")

\* frames after which _recv_loop receives again, and events that end it
Continuing == {AudioA, AudioB, AudioEmpty, AudioMissing, UnknownEvent}
Ending == {FinishStop, FinishError, Malformed, Disconnect, NetworkError}

\* a wait that delivers nothing: asyncio.wait_for raises TimeoutError
Timeout == Msg("TimeoutError", "", NoPayload, "")

\* a test that only asks whether the "audio" value is there
Truthy_present(audio) == audio.some

\* `if chunk:` for chunk = data.get("audio")
Truthy(audio) == audio.some /\ audio.bytes # <<>>

InitStreamWith(max_input, max_recv, durations) ==
    /\ InitCommon("stream", durations)
    /\ ChunkedIdle
    /\ FadeIdle
    /\ input = <<>>
    /\ incoming = <<>>
    /\ input_limit = max_input
    /\ recv_limit = max_recv
    /\ main_pc = "start"
    /\ exc = ""
    /\ ws_open = FALSE
    /\ input_ended = FALSE
    /\ pending = <<>>
    /\ started = FALSE
    /\ text_raw = <<>>
    /\ send_pc = "idle"
    /\ send_cancel = FALSE
    /\ sent = <<>>
    /\ marks = <<>>
    /\ stop_sends = 0
    /\ recv_pc = "idle"
    /\ recv_end = ""
    /\ recv_cancel = FALSE

\* calls with few inputs and many received frames
InitStream == InitStreamWith(MaxText, MaxRecv, FadeDurations)

\* calls with many inputs and few received frames, fading disabled
InitStreamOut == InitStreamWith(MaxInput, MaxRecvOut, {0})

\* a test that takes a task for stopped only when it returned normally
Terminal_returned(task_pc) == task_pc = "done"

\* task.done()
Terminal(task_pc) == task_pc \in {"done", "raised", "cancelled"}

----------------------------------------------------------------------------
(* _FadingStream._run: the coroutine itself *)

\* lines 215-259: the processor is built, the emitter is initialized in
\* streaming mode, the request and the client are built
StreamStart ==
    /\ mode = "stream" /\ main_pc = "start"
    /\ fade_processor' = NewFadeProcessor(fade_duration_ms)
    /\ emitter' = Append(emitter, EmitInitialize)
    /\ main_pc' = "connect"
    /\ UNCHANGED <<mode, fade_duration_ms, result, ended_before>>
    /\ UNCHANGED <<exc, ws_open, send_cancel, recv_cancel>>
    /\ UNCHANGED <<chunked_vars, fade_vars, script_vars, send_vars, recv_vars>>

\* lines 328-333: the client and the websocket are entered
Connect ==
    /\ main_pc = "connect"
    /\ \E outcome \in ConnectOutcomes :
         IF outcome = "ok"
         THEN /\ ws_open' = TRUE
              /\ main_pc' = "handshake"
              /\ exc' = exc
         ELSE /\ exc' = outcome
              /\ main_pc' = "except"
              /\ ws_open' = ws_open
    /\ UNCHANGED <<send_cancel, recv_cancel>>
    /\ UNCHANGED <<common_vars, chunked_vars, fade_vars, script_vars, send_vars, recv_vars>>

\* lines 334-341: the start frame is sent, the segment is started and the two
\* tasks are created; a failing send leaves the two context managers
Handshake ==
    /\ main_pc = "handshake"
    /\ \E outcome \in SendOutcomes :
         IF outcome = "ok"
         THEN /\ sent' = Append(sent, StartFrame)
              /\ emitter' = Append(emitter, EmitStartSegment)
              /\ send_pc' = "next_item"
              /\ recv_pc' = "receive"
              /\ main_pc' = "gather"
              /\ exc' = exc
         ELSE /\ exc' = outcome
              /\ main_pc' = "closing"
              /\ UNCHANGED <<sent, emitter, send_pc, recv_pc>>
    /\ UNCHANGED <<mode, fade_duration_ms, fade_processor, result, ended_before>>
    /\ UNCHANGED <<ws_open, send_cancel, recv_cancel>>
    /\ UNCHANGED <<input_ended, pending, started, text_raw, marks, stop_sends>>
    /\ UNCHANGED recv_end
    /\ UNCHANGED <<chunked_vars, fade_vars, script_vars>>

\* the task running _run is cancelled from outside while it awaits the
\* connection or the handshake send: CancelledError is raised at the await
CancelledEarly ==
    /\ main_pc \in {"connect", "handshake"}
    /\ exc' = "CancelledError"
    /\ main_pc' = IF main_pc = "connect" THEN "except" ELSE "closing"
    /\ UNCHANGED <<ws_open, send_cancel, recv_cancel>>
    /\ UNCHANGED <<common_vars, chunked_vars, fade_vars, script_vars, send_vars, recv_vars>>

\* a wait that returns as soon as one of the two tasks has finished, and
\* goes on to the teardown
GatherReturns_first ==
    /\ main_pc = "gather"
    /\ send_pc = "done" \/ recv_pc = "done"
    /\ main_pc' = "finally_send"
    /\ UNCHANGED <<exc, ws_open, send_cancel, recv_cancel>>
    /\ UNCHANGED <<common_vars, chunked_vars, fade_vars, script_vars, send_vars, recv_vars>>

\* line 344: gather returns once both tasks have finished normally; the
\* finally of lines 345-350 finds both done
GatherReturns ==
    /\ main_pc = "gather"
    /\ send_pc = "done" /\ recv_pc = "done"
    /\ main_pc' = "closing"
    /\ UNCHANGED <<exc, ws_open, send_cancel, recv_cancel>>
    /\ UNCHANGED <<common_vars, chunked_vars, fade_vars, script_vars, send_vars, recv_vars>>

\* line 344: gather raises the exception of the first task that raised (exc
\* holds it); the other task keeps running
GatherRaises ==
    /\ main_pc = "gather"
    /\ exc # ""
    /\ main_pc' = "finally_send"
    /\ UNCHANGED <<exc, ws_open, send_cancel, recv_cancel>>
    /\ UNCHANGED <<common_vars, chunked_vars, fade_vars, script_vars, send_vars, recv_vars>>

\* line 344: the task running _run is cancelled from outside while it awaits
\* gather: gather cancels the tasks that still run, CancelledError is raised
\* (also when a task has raised and _run has not resumed yet)
GatherCancelled ==
    /\ main_pc = "gather"
    /\ exc' = "CancelledError"
    /\ send_cancel' = ~Terminal(send_pc)
    /\ recv_cancel' = ~Terminal(recv_pc)
    /\ main_pc' = "finally_send"
    /\ UNCHANGED ws_open
    /\ UNCHANGED <<common_vars, chunked_vars, fade_vars, script_vars, send_vars, recv_vars>>

\* lines 346-348 for send_task: cancel it unless it is done
FinallySend ==
    /\ main_pc = "finally_send"
    /\ IF Terminal(send_pc)
       THEN /\ main_pc' = "finally_recv"
            /\ UNCHANGED send_cancel
       ELSE /\ send_cancel' = TRUE
            /\ main_pc' = "await_send"
    /\ UNCHANGED <<exc, ws_open, recv_cancel>>
    /\ UNCHANGED <<common_vars, chunked_vars, fade_vars, script_vars, send_vars, recv_vars>>

\* lines 349-350 for send_task: await it, suppressing CancelledError
AwaitSend ==
    /\ main_pc = "await_send"
    /\ Terminal(send_pc)
    /\ main_pc' = "finally_recv"
    /\ UNCHANGED <<exc, ws_open, send_cancel, recv_cancel>>
    /\ UNCHANGED <<common_vars, chunked_vars, fade_vars, script_vars, send_vars, recv_vars>>

\* a teardown that cancels recv_task and does not await it
FinallyRecv_no_await ==
    /\ main_pc = "finally_recv"
    /\ recv_cancel' = ~Terminal(recv_pc)
    /\ main_pc' = "closing"
    /\ UNCHANGED <<exc, ws_open, send_cancel>>
    /\ UNCHANGED <<common_vars, chunked_vars, fade_vars, script_vars, send_vars, recv_vars>>

\* lines 346-348 for recv_task
FinallyRecv ==
    /\ main_pc = "finally_recv"
    /\ IF Terminal(recv_pc)
       THEN /\ main_pc' = "closing"
            /\ UNCHANGED recv_cancel
       ELSE /\ recv_cancel' = TRUE
            /\ main_pc' = "await_recv"
    /\ UNCHANGED <<exc, ws_open, send_cancel>>
    /\ UNCHANGED <<common_vars, chunked_vars, fade_vars, script_vars, send_vars, recv_vars>>

\* lines 349-350 for recv_task
AwaitRecv ==
    /\ main_pc = "await_recv"
    /\ Terminal(recv_pc)
    /\ main_pc' = "closing"
    /\ UNCHANGED <<exc, ws_open, send_cancel, recv_cancel>>
    /\ UNCHANGED <<common_vars, chunked_vars, fade_vars, script_vars, send_vars, recv_vars>>

\* lines 328-329: the websocket and the client are left; the task may be
\* cancelled from outside while they close
Close ==
    /\ main_pc = "closing"
    /\ ws_open' = FALSE
    /\ main_pc' = "except"
    /\ \E cancelled \in BOOLEAN :
         exc' = IF cancelled THEN "CancelledError" ELSE exc
    /\ UNCHANGED <<send_cancel, recv_cancel>>
    /\ UNCHANGED <<common_vars, chunked_vars, fade_vars, script_vars, send_vars, recv_vars>>

\* the exception kinds lines 351-357 catch
Converted ==
    {"HTTPError", "TimeoutError", "WebSocketNetworkError",
     "WebSocketUpgradeError", "LocalProtocolError"}

\* a _run that calls end_input after the try statement instead of in its
\* finally
Exit_no_finally ==
    /\ main_pc = "except"
    /\ emitter' = IF exc = "" THEN Append(emitter, EmitEndInput) ELSE emitter
    /\ main_pc' = "done"
    /\ Leave(IF exc = "" THEN "ok"
             ELSE IF exc \in Converted THEN "APIConnectionError"
             ELSE exc)
    /\ UNCHANGED <<mode, fade_duration_ms, fade_processor>>
    /\ UNCHANGED <<exc, ws_open, send_cancel, recv_cancel>>
    /\ UNCHANGED <<chunked_vars, fade_vars, script_vars, send_vars, recv_vars>>

\* lines 351-360: the except clause and end_input in the finally; _run leaves
Exit ==
    /\ main_pc = "except"
    /\ emitter' = Append(emitter, EmitEndInput)
    /\ main_pc' = "done"
    /\ Leave(IF exc = "" THEN "ok"
             ELSE IF exc \in Converted THEN "APIConnectionError"
             ELSE exc)
    /\ UNCHANGED <<mode, fade_duration_ms, fade_processor>>
    /\ UNCHANGED <<exc, ws_open, send_cancel, recv_cancel>>
    /\ UNCHANGED <<chunked_vars, fade_vars, script_vars, send_vars, recv_vars>>


----------------------------------------------------------------------------
(* _send_loop *)

\* a task raises: gather propagates the first exception raised
Raised(e) == IF exc = "" THEN e ELSE exc

TaskRuns == main_pc \in {"gather", "finally_send", "await_send",
                         "finally_recv", "await_recv"}

\* a loop that sends the stop frame whether or not text was submitted
AfterFlush_always_stop(ended, is_started) ==
    IF ~ended THEN "next_item" ELSE "send_stop"

\* where _send_loop goes when _flush_pending has returned: back to the async
\* for, or, after end-of-input, to lines 291-295
AfterFlush(ended, is_started) ==
    IF ~ended THEN "next_item"
    ELSE IF is_started THEN "send_stop"
    ELSE "done"

\* a _flush_pending that drops a text equal to the one submitted before it
HasText_dedupe(parts) ==
    /\ parts # <<>>
    /\ Strip(Join(parts)) # <<>>
    /\ ~(started /\ Strip(Join(parts)) = Strip(text_raw))

\* a _flush_pending that does not trim the text before testing it
HasText_untrimmed(parts) == parts # <<>> /\ Join(parts) # <<>>

\* lines 267-276 of _flush_pending, up to the first send: TRUE when there is
\* text to send
HasText(parts) == parts # <<>> /\ Strip(Join(parts)) # <<>>

\* what the async for of line 283 may deliver next: an item, or the end of
\* the input (written as end |-> TRUE)
NextInputs ==
    {[end |-> TRUE, item |-> FlushSentinel]}
      \cup (IF Len(input) < input_limit
            THEN {[end |-> FALSE, item |-> it] : it \in Items}
            ELSE {})

\* lines 283-289: the async for delivers the next item, or ends; a flush
\* marker and the end of the input call _flush_pending
SendNextItem ==
    /\ TaskRuns /\ send_pc = "next_item" /\ ~send_cancel
    /\ \E nxt \in NextInputs :
         /\ input' = IF nxt.end THEN input ELSE Append(input, nxt.item)
         /\ input_ended' = nxt.end
         /\ IF ~nxt.end /\ ~nxt.item.flush
            THEN /\ pending' = Append(pending, nxt.item.text)
                 /\ UNCHANGED <<started, text_raw, send_pc, marks>>
            ELSE /\ pending' = <<>>
                 /\ IF HasText(pending)
                    THEN /\ text_raw' = Join(pending)
                         /\ started' = TRUE
                         /\ marks' = IF started THEN marks
                                     ELSE Append(marks, Len(sent))
                         /\ send_pc' = "send_text"
                    ELSE /\ send_pc' = AfterFlush(nxt.end, started)
                         /\ UNCHANGED <<started, text_raw, marks>>
    /\ stop_sends' = IF send_pc' = "send_stop" THEN stop_sends + 1
                     ELSE stop_sends
    /\ UNCHANGED <<sent, incoming, input_limit, recv_limit>>
    /\ UNCHANGED <<common_vars, chunked_vars, fade_vars, main_vars, recv_vars>>

\* lines 277-279: the text frame is sent, or the send raises
SendText ==
    /\ TaskRuns /\ send_pc = "send_text" /\ ~send_cancel
    /\ \E outcome \in SendOutcomes :
         IF outcome = "ok"
         THEN /\ sent' = Append(sent, TextFrame(text_raw))
              /\ send_pc' = "send_flush"
              /\ exc' = exc
         ELSE /\ send_pc' = "raised"
              /\ exc' = Raised(outcome)
              /\ sent' = sent
    /\ UNCHANGED <<input_ended, pending, started, text_raw, marks, stop_sends>>
    /\ UNCHANGED <<main_pc, ws_open, send_cancel, recv_cancel>>
    /\ UNCHANGED <<common_vars, chunked_vars, fade_vars, script_vars, recv_vars>>

\* line 280: the flush frame is sent, or the send raises
SendFlush ==
    /\ TaskRuns /\ send_pc = "send_flush" /\ ~send_cancel
    /\ \E outcome \in SendOutcomes :
         IF outcome = "ok"
         THEN /\ sent' = Append(sent, FlushFrame)
              /\ send_pc' = AfterFlush(input_ended, started)
              /\ exc' = exc
         ELSE /\ send_pc' = "raised"
              /\ exc' = Raised(outcome)
              /\ sent' = sent
    /\ UNCHANGED <<input_ended, pending, started, text_raw, marks>>
    /\ stop_sends' = IF send_pc' = "send_stop" THEN stop_sends + 1
                     ELSE stop_sends
    /\ UNCHANGED <<main_pc, ws_open, send_cancel, recv_cancel>>
    /\ UNCHANGED <<common_vars, chunked_vars, fade_vars, script_vars, recv_vars>>

\* a send of the stop frame without the try of lines 292-295
SendStop_raise ==
    /\ TaskRuns /\ send_pc = "send_stop" /\ ~send_cancel
    /\ \E outcome \in SendOutcomes :
         IF outcome = "ok"
         THEN /\ sent' = Append(sent, StopFrame)
              /\ send_pc' = "done"
              /\ exc' = exc
         ELSE /\ send_pc' = "raised"
              /\ exc' = Raised(outcome)
              /\ sent' = sent
    /\ UNCHANGED <<input_ended, pending, started, text_raw, marks, stop_sends>>
    /\ UNCHANGED <<main_pc, ws_open, send_cancel, recv_cancel>>
    /\ UNCHANGED <<common_vars, chunked_vars, fade_vars, script_vars, recv_vars>>

\* lines 291-295: the stop frame is sent; LocalProtocolError is swallowed
SendStop ==
    /\ TaskRuns /\ send_pc = "send_stop" /\ ~send_cancel
    /\ \E outcome \in SendOutcomes :
         IF outcome = "ok"
         THEN /\ sent' = Append(sent, StopFrame)
              /\ send_pc' = "done"
              /\ exc' = exc
         ELSE IF outcome = "LocalProtocolError"
         THEN /\ send_pc' = "done"
              /\ UNCHANGED <<sent, exc>>
         ELSE /\ send_pc' = "raised"
              /\ exc' = Raised(outcome)
              /\ sent' = sent
    /\ UNCHANGED <<input_ended, pending, started, text_raw, marks, stop_sends>>
    /\ UNCHANGED <<main_pc, ws_open, send_cancel, recv_cancel>>
    /\ UNCHANGED <<common_vars, chunked_vars, fade_vars, script_vars, recv_vars>>

\* send_task was cancelled: CancelledError is raised at the await it is
\* suspended at, and nothing in _send_loop catches it
SendCancelled ==
    /\ TaskRuns /\ send_cancel /\ ~Terminal(send_pc)
    /\ send_pc' = "cancelled"
    /\ send_cancel' = FALSE
    /\ UNCHANGED <<input_ended, pending, started, text_raw, sent, marks, stop_sends>>
    /\ UNCHANGED <<main_pc, exc, ws_open, recv_cancel>>
    /\ UNCHANGED <<common_vars, chunked_vars, fade_vars, script_vars, recv_vars>>

----------------------------------------------------------------------------
(* _recv_loop *)

\* a loop without the except clause of lines 322-323
RecvRaises_timeout(msg) ==
    CASE msg.kind = "WebSocketDisconnect" -> "APIConnectionError"
      [] msg.kind = "WebSocketNetworkError" -> "WebSocketNetworkError"
      [] msg.kind = "malformed" -> "MsgpackDecodeError"
      [] msg.kind = "TimeoutError" -> "TimeoutError"
      [] msg.kind = "frame" /\ msg.event = "finish" /\ msg.reason = "error"
           -> "APIConnectionError"
      [] OTHER -> ""

\* a loop that leaves on every finish event without looking at its reason
RecvRaises_finish_ok(msg) ==
    CASE msg.kind = "WebSocketDisconnect" -> "APIConnectionError"
      [] msg.kind = "WebSocketNetworkError" -> "WebSocketNetworkError"
      [] msg.kind = "malformed" -> "MsgpackDecodeError"
      [] OTHER -> ""

\* the exception a receive wait or the handling of its frame raises ("" for
\* none): lines 304, 307, 320 and 324-325
RecvRaises(msg) ==
    CASE msg.kind = "WebSocketDisconnect" -> "APIConnectionError"
      [] msg.kind = "WebSocketNetworkError" -> "WebSocketNetworkError"
      [] msg.kind = "malformed" -> "MsgpackDecodeError"
      [] msg.kind = "frame" /\ msg.event = "finish" /\ msg.reason = "error"
           -> "APIConnectionError"
      [] OTHER -> ""

\* what ends _recv_loop at this frame ("" when it receives again)
RecvEnds(msg) ==
    IF msg.kind = "frame"
    THEN IF msg.event = "finish"
         THEN IF msg.reason = "error" THEN "finish_error" ELSE "finish"
         ELSE ""
    ELSE msg.kind

\* a loop that starts a segment for every audio chunk
OnAudio_segment(log, fp, chunk) ==
    Append(Append(log, EmitStartSegment), EmitPush(Processed(fp, chunk)))

\* lines 312-317: the emitter's log after a non-empty audio chunk
OnAudio(log, fp, chunk) == Append(log, EmitPush(Processed(fp, chunk)))

\* what the wait of lines 303-306 may deliver next
NextMessages ==
    Ending \cup {Timeout}
      \cup (IF Len(incoming) < recv_limit THEN Continuing ELSE {})

\* lines 302-325: one turn of the loop
Receive ==
    /\ TaskRuns /\ recv_pc = "receive" /\ ~recv_cancel
    /\ \E msg \in NextMessages :
         /\ incoming' = Append(incoming, msg)
         /\ recv_end' = RecvEnds(msg)
         /\ recv_pc' = IF RecvRaises(msg) # "" THEN "raised"
                       ELSE IF RecvEnds(msg) # "" THEN "done"
                       ELSE "receive"
         /\ exc' = IF RecvRaises(msg) # "" THEN Raised(RecvRaises(msg))
                   ELSE exc
         /\ IF msg.kind = "frame" /\ msg.event = "audio" /\ Truthy(msg.audio)
            THEN /\ emitter' = OnAudio(emitter, fade_processor, msg.audio.bytes)
                 /\ fade_processor' =
                       AfterProcess(fade_processor, msg.audio.bytes)
            ELSE UNCHANGED <<emitter, fade_processor>>
    /\ UNCHANGED <<mode, fade_duration_ms, result, ended_before>>
    /\ UNCHANGED <<main_pc, ws_open, send_cancel, recv_cancel>>
    /\ UNCHANGED <<input, input_limit, recv_limit>>
    /\ UNCHANGED <<chunked_vars, fade_vars, send_vars>>

\* recv_task was cancelled: CancelledError is raised at the receive wait, and
\* nothing in _recv_loop catches it
RecvCancelled ==
    /\ TaskRuns /\ recv_cancel /\ ~Terminal(recv_pc)
    /\ recv_pc' = "cancelled"
    /\ recv_end' = "cancelled"
    /\ recv_cancel' = FALSE
    /\ UNCHANGED <<main_pc, exc, ws_open, send_cancel>>
    /\ UNCHANGED <<common_vars, chunked_vars, fade_vars, script_vars, send_vars>>

NextStream ==
    \/ StreamStart
    \/ Connect
    \/ Handshake
    \/ CancelledEarly
    \/ GatherReturns
    \/ GatherRaises
    \/ GatherCancelled
    \/ FinallySend
    \/ AwaitSend
    \/ FinallyRecv
    \/ AwaitRecv
    \/ Close
    \/ Exit
    \/ SendNextItem
    \/ SendText
    \/ SendFlush
    \/ SendStop
    \/ SendCancelled
    \/ Receive
    \/ RecvCancelled

SpecStream == InitStream /\ [][NextStream]_vars
SpecStreamOut == InitStreamOut /\ [][NextStream]_vars

\* The steps the event loop takes by itself: those of _run, of send_task and
\* of recv_task.  A cancellation from outside (CancelledEarly,
\* GatherCancelled) is the caller's choice and is not among them.
MainStep ==
    \/ StreamStart \/ Connect \/ Handshake
    \/ GatherReturns \/ GatherRaises
    \/ FinallySend \/ AwaitSend \/ FinallyRecv \/ AwaitRecv
    \/ Close \/ Exit
SendTaskStep == SendNextItem \/ SendText \/ SendFlush \/ SendStop \/ SendCancelled
RecvTaskStep == Receive \/ RecvCancelled

\* calls with one input and one received frame before the ending event,
\* fading disabled
InitStreamLive == InitStreamWith(MaxTextLive, MaxRecvLive, {0})

\* A call in which every await returns: the input channel delivers its next
\* item or its end, every receive wait returns a frame, an error or a
\* timeout, every send and the connection attempt return or raise, and a
\* coroutine that can run is run.
SpecStreamLive ==
    /\ InitStreamLive /\ [][NextStream]_vars
    /\ WF_vars(MainStep) /\ WF_vars(SendTaskStep) /\ WF_vars(RecvTaskStep)

----------------------------------------------------------------------------
(* A _FadeInProcessor on its own: any sequence of process() calls *)

\* buffers passed to process(): those of the one-shot call and a misaligned
\* one of three bytes
Buffers == Chunks \cup {<<255, 255, 1>>}

\* _FadeInProcessor(sample_rate=..., num_channels=NUM_CHANNELS,
\* duration_ms=...), built only for a positive duration
FadeInProcessor(sample_rate, duration_ms) ==
    [present |-> TRUE,
     fade_frames |-> FadeFrames(sample_rate, duration_ms),
     processed_frames |-> 0]

InitFade ==
    /\ mode = "fade"
    /\ fade_duration_ms = FadeMs
    /\ \E sample_rate \in {SampleRate, LowSampleRate} :
          fade_processor = FadeInProcessor(sample_rate, fade_duration_ms)
    /\ emitter = <<>>
    /\ result = "running"
    /\ ended_before = 0
    /\ ChunkedIdle
    /\ StreamIdle
    /\ FadeIdle

\* one call of process(chunk)
Process ==
    /\ mode = "fade" /\ Len(fed) < MaxCalls
    /\ \E chunk \in Buffers :
         /\ fed' = Append(fed, chunk)
         /\ returned' = Append(returned, Processed(fade_processor, chunk))
         /\ fade_processor' = AfterProcess(fade_processor, chunk)
         /\ counts' = Append(counts,
                             AfterProcess(fade_processor, chunk).processed_frames)
    /\ UNCHANGED <<mode, fade_duration_ms, emitter, result, ended_before>>
    /\ UNCHANGED <<chunked_vars, stream_vars>>

NextFade == Process

SpecFade == InitFade /\ [][NextFade]_vars

Init == InitChunked \/ InitStream \/ InitStreamOut \/ InitStreamLive \/ InitFade
Next == NextChunked \/ NextStream \/ NextFade
Spec == Init /\ [][Next]_vars

----------------------------------------------------------------------------
(* Properties of the one-shot call *)

IsPrefix(a, b) == Len(a) <= Len(b) /\ a = SubSeq(b, 1, Len(a))

\* what a fresh processor returns for each chunk of a sequence, in order
RECURSIVE FadeAll(_, _)
FadeAll(chunks, fp) ==
    IF chunks = <<>> THEN <<>>
    ELSE <<Processed(fp, Head(chunks))>>
           \o FadeAll(Tail(chunks), AfterProcess(fp, Head(chunks)))

FadedSource == FadeAll(source, NewFadeProcessor(fade_duration_ms))

PushCalls(datas) == [i \in 1..Len(datas) |-> EmitPush(datas[i])]

\* C1: one-shot call whose source yields c1..cn and does not raise: at every
\* moment the pushes made are the first chunks of the source, faded, in the
\* order the source produced them; the call cannot get stuck before its end;
\* when it has ended the emitter has received initialize, exactly one push
\* per chunk in order, then exactly one end_input, nothing was left in
\* flight, and the call returned normally.
C1_OneShotDelivery ==
    (mode = "chunked" /\ ~source_raises) =>
        /\ IsPrefix(Pushes(emitter), FadedSource)
        /\ pc # "done" => /\ Count(emitter, "end_input") = 0
                          /\ result = "running"
                          /\ ENABLED NextChunked
        /\ pc = "done" =>
              /\ emitter = <<EmitInitialize>> \o PushCalls(FadedSource)
                              \o <<EmitEndInput>>
              /\ ready = <<>> /\ courier_queue = <<>>
              /\ result = "ok"

\* C1 witness: a call that faded and delivered three chunks, two of them
\* different, and returned normally
C1_Witness ==
    /\ mode = "chunked" /\ ~source_raises /\ pc = "done" /\ result = "ok"
    /\ Len(source) >= 3 /\ source[1] # source[2]
    /\ Pushes(emitter) # source
    /\ Len(Pushes(emitter)) = Len(source)

\* the items scheduled or queued and not yet taken, oldest first
InFlight == courier_queue \o ready

\* C2: one-shot call whose source yields c1..ck and then raises: the exception
\* is enqueued before the sentinel (the sentinel is the last item in flight,
\* and by then the exception is in flight before it or was already taken);
\* the pushes made are the first chunks of the source, faded, in order; when
\* the consumer has seen the sentinel it has pushed exactly c1..ck and holds
\* the error; the call leaves only after the queue is drained and the worker
\* has returned, and it then raises APIConnectionError.
C2_SourceError ==
    (mode = "chunked" /\ source_raises) =>
        /\ \A i \in 1..Len(InFlight) :
              InFlight[i] = sentinel =>
                 /\ i = Len(InFlight)
                 /\ error \/ \E j \in 1..(i - 1) : InFlight[j] = ExcItem
        /\ IsPrefix(Pushes(emitter), FadedSource)
        /\ pc \in {"await_worker", "done"} =>
              /\ Pushes(emitter) = FadedSource
              /\ error
              /\ InFlight = <<>>
        /\ result # "running" => pc = "done"
        /\ pc = "done" => wpc = "done" /\ result = "APIConnectionError"

\* C2 witness: the source raised after two chunks, both were pushed and the
\* call raised the connection error
C2_Witness ==
    /\ mode = "chunked" /\ source_raises /\ pc = "done"
    /\ Len(source) = 2 /\ source[1] # source[2]
    /\ Len(Pushes(emitter)) = 2
    /\ result = "APIConnectionError"

----------------------------------------------------------------------------
(* Properties of the outbound half of the streaming call *)

\* the frames a flush point owes for the fragments buffered before it
FlushOf(buf) ==
    IF Strip(Join(buf)) # <<>>
    THEN <<TextFrame(Join(buf)), FlushFrame>>
    ELSE <<>>

\* the frames owed for the flush markers of a sequence of items
RECURSIVE FlushedFrames(_, _)
FlushedFrames(items, buf) ==
    IF items = <<>> THEN <<>>
    ELSE IF Head(items).flush
         THEN FlushOf(buf) \o FlushedFrames(Tail(items), <<>>)
         ELSE FlushedFrames(Tail(items), Append(buf, Head(items).text))

\* the fragments after the last flush marker
RECURSIVE Leftover(_, _)
Leftover(items, buf) ==
    IF items = <<>> THEN buf
    ELSE IF Head(items).flush
         THEN Leftover(Tail(items), <<>>)
         ELSE Leftover(Tail(items), Append(buf, Head(items).text))

\* the frames owed for every flush point: the markers and, once the input
\* has ended, the end of the input
DueFrames(items, ended) ==
    FlushedFrames(items, <<>>)
      \o (IF ended THEN FlushOf(Leftover(items, <<>>)) ELSE <<>>)

\* the frames _send_loop has sent (all but the start frame of the handshake)
OutboundSent == IF sent = <<>> THEN <<>> ELSE Tail(sent)

StopsAt(frames) == {i \in 1..Len(frames) : frames[i] = StopFrame}
TextsAt(frames) == {i \in 1..Len(frames) : frames[i].event = "text"}

BeforeStop(frames) ==
    IF StopsAt(frames) = {} THEN frames
    ELSE SubSeq(frames, 1,
                (CHOOSE i \in StopsAt(frames) :
                    \A j \in StopsAt(frames) : i <= j) - 1)

\* C3: outbound half: the frames sent before any stop frame are, in input
\* order, exactly one text frame (carrying the joined fragments) immediately
\* followed by one flush frame for each flush point whose buffer is non-empty
\* after trimming, and nothing for a flush point whose buffer is empty or
\* whitespace-only; equal texts are sent again.  Stated of every state: the
\* frames sent are always the first of the frames owed for the input taken;
\* they are all of them whenever the loop waits for its next item or has
\* passed its last flush, and all but the flush frame between the two sends
\* of a flush.
C3_OutboundFrames ==
    mode = "stream" =>
      LET out == BeforeStop(OutboundSent) IN
        /\ IsPrefix(out, DueFrames(input, input_ended))
        /\ send_pc = "next_item" => out = DueFrames(input, FALSE)
        /\ send_pc = "send_text" =>
              out \o <<TextFrame(text_raw), FlushFrame>>
                 = DueFrames(input, input_ended)
        /\ send_pc = "send_flush" =>
              Append(out, FlushFrame) = DueFrames(input, input_ended)
        /\ send_pc \in {"send_stop", "done"} => out = DueFrames(input, TRUE)

\* C3 witness: "hi", flush, "hi", flush was sent as two equal text frames,
\* each followed by its flush frame
C3_Witness ==
    /\ send_pc = "done"
    /\ input = <<TextItem(<<"h", "i">>), FlushSentinel,
                 TextItem(<<"h", "i">>), FlushSentinel>>
    /\ sent = <<StartFrame, TextFrame(<<"h", "i">>), FlushFrame,
                TextFrame(<<"h", "i">>), FlushFrame, StopFrame>>

\* C4: outbound half: the stop frame is sent at most once (line 293 is
\* reached at most once), only after the end of the input was observed and
\* after every text and flush frame owed, and no frame follows it; a loop
\* that has run to its end has reached the send of the stop frame if and only
\* if it sent a text frame, so a call whose flushes were all empty or
\* whitespace-only sends no stop frame.
C4_StopFrame ==
    mode = "stream" =>
        /\ stop_sends <= 1
        /\ Cardinality(StopsAt(sent)) <= stop_sends
        /\ \A i \in StopsAt(sent) : i = Len(sent)
        /\ stop_sends = 1 =>
              /\ input_ended
              /\ TextsAt(sent) # {}
              /\ BeforeStop(OutboundSent) = DueFrames(input, TRUE)
        /\ send_pc = "done" => (stop_sends = 1 <=> TextsAt(sent) # {})
        /\ (send_pc = "done" /\ TextsAt(sent) = {}) => StopsAt(sent) = {}

\* C4 witness: a call that submitted two texts and then sent the stop frame
C4_Witness ==
    /\ send_pc = "done"
    /\ Cardinality(TextsAt(sent)) = 2
    /\ sent[Len(sent)] = StopFrame

----------------------------------------------------------------------------
(* Properties of the inbound half and of the emitter in a streaming call *)

\* the non-empty audio payloads among the frames received, in order
RECURSIVE AudioOf(_)
AudioOf(msgs) ==
    IF msgs = <<>> THEN <<>>
    ELSE IF Head(msgs).kind = "frame" /\ Head(msgs).event = "audio"
            /\ Head(msgs).audio.some /\ Head(msgs).audio.bytes # <<>>
         THEN <<Head(msgs).audio.bytes>> \o AudioOf(Tail(msgs))
         ELSE AudioOf(Tail(msgs))

FadedAudio(msgs) == FadeAll(AudioOf(msgs), NewFadeProcessor(fade_duration_ms))

\* C5: inbound half: when a receive wait has expired with no frame (no finish
\* event was seen before it), the inbound half has ended normally, every
\* non-empty audio chunk received before the expiry has been pushed, and a
\* call whose outbound half has finished too, and which was not cancelled
\* from outside, returns normally.
C5_TimeoutCompletes ==
    recv_end = "TimeoutError" =>
        /\ recv_pc = "done"
        /\ incoming[Len(incoming)] = Timeout
        /\ \A i \in 1..Len(incoming) : incoming[i].event # "finish"
        /\ Pushes(emitter) = FadedAudio(incoming)
        /\ (main_pc = "done" /\ send_pc = "done" /\ exc # "CancelledError")
              => result = "ok"

\* C5 witness: one audio chunk, then a wait that expired; the call returned
\* normally with the chunk pushed
C5_Witness ==
    /\ recv_end = "TimeoutError"
    /\ Len(Pushes(emitter)) = 1 /\ Len(incoming) = 2
    /\ main_pc = "done" /\ result = "ok"

\* C6: inbound half: a finish event with reason "error" is the last thing the
\* call receives: the receive loop has raised, an exception propagates, no
\* audio is pushed after it (the pushes are those of the audio received
\* before it), and the call, unless it was cancelled from outside, fails with
\* APIConnectionError; a finish event with another reason ends the receive
\* loop normally.
C6_ErrorFinish ==
    \A i \in 1..Len(incoming) :
        /\ incoming[i] = FinishError =>
              /\ i = Len(incoming)
              /\ recv_pc = "raised" /\ recv_end = "finish_error"
              /\ exc # ""
              /\ Pushes(emitter) = FadedAudio(SubSeq(incoming, 1, i - 1))
              /\ result \in {"running", "APIConnectionError", "CancelledError"}
              /\ result = "CancelledError" => exc = "CancelledError"
        /\ incoming[i] = FinishStop =>
              /\ i = Len(incoming)
              /\ recv_pc = "done" /\ recv_end = "finish"

\* C6 witness: audio, then an error finish; the call failed with the
\* connection error
C6_Witness ==
    /\ Len(incoming) = 2 /\ incoming[2] = FinishError
    /\ Len(Pushes(emitter)) = 1
    /\ main_pc = "done" /\ result = "APIConnectionError"

PushesAt(log) == {i \in 1..Len(log) : log[i].op = "push"}
SegmentsAt(log) == {i \in 1..Len(log) : log[i].op = "start_segment"}

\* C7: in a streaming call that has received a non-empty audio event,
\* start_segment was called exactly once, before the first push, and each
\* audio event received caused one push and no other start_segment.
C7_SegmentOnce ==
    (mode = "stream" /\ AudioOf(incoming) # <<>>) =>
        /\ Cardinality(SegmentsAt(emitter)) = 1
        /\ \A s \in SegmentsAt(emitter) : \A q \in PushesAt(emitter) : s < q
        /\ Cardinality(PushesAt(emitter)) = Len(AudioOf(incoming))

\* C7 witness: two audio events were pushed after the one start_segment
C7_Witness ==
    /\ Len(AudioOf(incoming)) = 2
    /\ Cardinality(PushesAt(emitter)) = 2
    /\ Cardinality(SegmentsAt(emitter)) = 1

\* C8: start_segment is not called until the first non-empty audio chunk has
\* been received, so a call that ends without one never calls it.
C8_DeferredSegment ==
    mode = "stream" =>
        (SegmentsAt(emitter) # {} => AudioOf(incoming) # <<>>)

\* C9: in a streaming call end_input is called at most once, it has been
\* called exactly once when the call has left (normally, on a connection or
\* handshake failure, on the failure of a half, on a cancellation from
\* outside), it is called on no other occasion, and no emitter call follows
\* it.
C9_EndInputOnce ==
    mode = "stream" =>
        /\ Count(emitter, "end_input") <= 1
        /\ (Count(emitter, "end_input") = 1) <=> (main_pc = "done")
        /\ (result # "running") <=> (main_pc = "done")
        /\ result # "running" => ended_before = 1
        /\ Count(emitter, "end_input") = 1 =>
              emitter[Len(emitter)] = EmitEndInput

\* C9 witness: a call cancelled from outside after it pushed audio called
\* end_input once, last
C9_Witness ==
    /\ mode = "stream" /\ result = "CancelledError"
    /\ PushesAt(emitter) # {}
    /\ Count(emitter, "end_input") = 1
    /\ emitter[Len(emitter)] = EmitEndInput

\* C10: a call that has left either returned normally, its audio delivered
\* and end_input called, or raised APIConnectionError, and then too end_input
\* had been called before the error left the call.
C10_NoPartialSuccess ==
    result # "running" =>
        /\ result \in {"ok", "APIConnectionError"}
        /\ ended_before = 1
        /\ result = "ok" =>
              Pushes(emitter) = IF mode = "chunked" THEN FadedSource
                                ELSE FadedAudio(incoming)

----------------------------------------------------------------------------
(* Properties of the teardown and of the failures of a call *)

\* a task that was created and has not stopped
Running(task_pc) == task_pc # "idle" /\ ~Terminal(task_pc)

Released == main_pc \in {"closing", "except", "done"}

\* C11: joint teardown of a streaming call: whenever the socket is closed,
\* is about to be released, or the call has left, neither send_task nor
\* recv_task is still running and no cancellation is left undelivered; the
\* socket is closed before the call leaves; while the teardown awaits a task
\* that task has been cancelled or has stopped, and a task the teardown
\* found running has ended cancelled; and no frame is sent or received
\* unless the socket is open.
C11_JointTeardown ==
    /\ [](mode = "stream" =>
            /\ (~ws_open \/ Released \/ result # "running") =>
                  /\ ~Running(send_pc) /\ ~Running(recv_pc)
                  /\ ~send_cancel /\ ~recv_cancel
            /\ result # "running" => ~ws_open
            /\ main_pc = "await_send" => send_cancel \/ send_pc = "cancelled"
            /\ main_pc \in {"finally_recv", "await_recv"} => Terminal(send_pc)
            /\ main_pc = "await_recv" => recv_cancel \/ recv_pc = "cancelled")
    /\ [][(sent' # sent \/ incoming' # incoming) => ws_open /\ ws_open']_vars

\* C11 witness: the receive loop raised while the send loop was running; the
\* send loop was cancelled and had stopped, and the socket was closed, when
\* the call left
C11_Witness ==
    /\ main_pc = "done" /\ ~ws_open
    /\ recv_pc = "raised" /\ send_pc = "cancelled"
    /\ result = "APIConnectionError"

\* C12: every failure of a call reaches the caller as APIConnectionError: a
\* call that has left without returning normally, and was not cancelled from
\* outside, raised APIConnectionError.
C12_SingleFailureKind ==
    result \notin {"running", "ok", "CancelledError"}
        => result = "APIConnectionError"

\* frames that carry nothing to forward: an audio event with an empty or a
\* missing payload, an event with another tag than audio or finish
Quiet == {AudioEmpty, AudioMissing, UnknownEvent}

\* a step that receives a frame of Quiet changes nothing at the emitter
QuietStep ==
    (incoming' # incoming /\ incoming'[Len(incoming')] \in Quiet)
        => (emitter' = emitter /\ fade_processor' = fade_processor)

\* a step taken when the inbound half has ended receives and pushes nothing
AfterInbound ==
    Terminal(recv_pc) =>
        (incoming' = incoming /\ Pushes(emitter') = Pushes(emitter))

\* C16: inbound forwarding of a streaming call: the pushes made are, in
\* order and after the fade, the non-empty audio payloads received; a frame
\* with an empty or missing audio payload, or with a tag other than audio or
\* finish, causes no emitter call and does not end the receive loop (after it
\* the loop receives again unless it is cancelled); once the inbound half has
\* ended nothing more is received or pushed.
C16_InboundForwarding ==
    /\ [](mode = "stream" =>
            /\ Pushes(emitter) = FadedAudio(incoming)
            /\ (incoming # <<>> /\ incoming[Len(incoming)] \in Quiet) =>
                  /\ recv_pc \in {"receive", "cancelled"}
                  /\ recv_end \in {"", "cancelled"})
    /\ [][QuietStep /\ AfterInbound]_vars

\* C16 witness: an event with an unknown tag, then audio that the fade
\* changed, then a finish event: one push, of the faded audio
C16_Witness ==
    /\ Len(incoming) = 3
    /\ incoming[1] = UnknownEvent /\ incoming[2] = AudioB
    /\ incoming[3] = FinishStop
    /\ recv_pc = "done"
    /\ Len(Pushes(emitter)) = 1
    /\ Pushes(emitter)[1] # AudioB.audio.bytes

\* no half has raised and the call was not cancelled from outside
Undisturbed ==
    send_pc # "raised" /\ recv_pc # "raised" /\ exc # "CancelledError"

SendStep == SendNextItem \/ SendText \/ SendFlush \/ SendStop

\* C17: the half of a streaming call that finishes first does not stop the
\* other.  While no half has raised and the call has not been cancelled, no
\* half is cancelled or has a cancellation pending; after the inbound half
\* has ended normally (finish event without error, or receive timeout) the
\* call still waits at gather and the outbound half, until it has finished,
\* can take its next step (the next input, a text, flush or stop frame), and
\* it finishes only at the end of the input; after the outbound half has
\* finished the inbound half can still receive, and it ends only on a finish
\* event or a receive timeout.
C17_IndependentHalves ==
    (mode = "stream" /\ Undisturbed) =>
        /\ ~send_cancel /\ ~recv_cancel
        /\ send_pc # "cancelled" /\ recv_pc # "cancelled"
        /\ (recv_pc = "done" /\ Running(send_pc)) =>
              main_pc = "gather" /\ ENABLED SendStep
        /\ (send_pc = "done" /\ Running(recv_pc)) =>
              main_pc = "gather" /\ ENABLED Receive
        /\ send_pc = "done" => input_ended
        /\ recv_pc = "done" => recv_end \in {"finish", "TimeoutError"}

\* C17 witness: the inbound half has ended on a finish event and the outbound
\* half, not cancelled, is about to send a text frame
C17_Witness ==
    /\ main_pc = "gather" /\ Undisturbed
    /\ recv_pc = "done" /\ recv_end = "finish"
    /\ send_pc = "send_text" /\ ~send_cancel

\* C18: in a streaming call _mark_started is called at most once; it has
\* been called exactly when a flush point taken so far had text left after
\* trimming (so never in a call without one, and not by empty or
\* whitespace-only flushes before it); it was called when no text frame had
\* been sent yet, and the first text frame, sent after it, is that of the
\* first such flush point.
C18_StartedMark ==
    mode = "stream" =>
        /\ Len(marks) <= 1
        /\ (marks # <<>>) <=> started
        /\ (marks # <<>>) <=> (DueFrames(input, input_ended) # <<>>)
        /\ TextsAt(sent) # {} => marks # <<>>
        /\ \A i \in 1..Len(marks) :
              /\ \A t \in TextsAt(sent) : t > marks[i]
              /\ Len(sent) > marks[i] =>
                    sent[marks[i] + 1] = DueFrames(input, input_ended)[1]

\* C18 witness: a whitespace-only flush, then a flush with text: one mark,
\* made before the text frame, which is the second frame on the socket
C18_Witness ==
    /\ input = <<TextItem(<<" ">>), FlushSentinel,
                 TextItem(<<"h", "i">>), FlushSentinel>>
    /\ marks = <<1>>
    /\ TextsAt(sent) = {2}
    /\ send_pc = "done"

\* line 293 was reached, the send loop ended normally and no stop frame is on
\* the socket: the send raised LocalProtocolError and lines 294-295 dropped it
Swallowed == stop_sends = 1 /\ send_pc = "done" /\ StopsAt(sent) = {}

\* C19: a LocalProtocolError raised by the send of the stop frame is
\* swallowed: the send loop ends normally, no exception propagates and the
\* receive loop is not cancelled because of it, and a call whose receive loop
\* ends normally too, and which is not cancelled from outside, returns
\* normally.  Raised by the send of a text or flush frame it is not
\* swallowed: a send loop that ended normally has put every text and flush
\* frame owed on the socket, a send loop that raised makes the call fail,
\* with APIConnectionError when LocalProtocolError is what propagates, and a
\* LocalProtocolError that propagates from the send loop never comes from
\* the send of the stop frame.
C19_StopFailureSwallowed ==
    mode = "stream" =>
        /\ Swallowed =>
              /\ (recv_pc # "raised" /\ exc # "CancelledError") =>
                    /\ exc = ""
                    /\ ~recv_cancel /\ recv_pc # "cancelled"
              /\ (main_pc = "done" /\ recv_pc = "done"
                    /\ exc # "CancelledError") => result = "ok"
        /\ send_pc = "done" =>
              BeforeStop(OutboundSent) = DueFrames(input, TRUE)
        /\ send_pc = "raised" =>
              /\ exc # "" /\ result # "ok"
              /\ (main_pc = "done" /\ exc = "LocalProtocolError")
                    => result = "APIConnectionError"
              /\ exc = "LocalProtocolError" => stop_sends = 0

\* C19 witness: the send of the stop frame failed and was swallowed, the
\* receive loop ended on a finish event and the call returned normally
C19_Witness ==
    /\ Swallowed
    /\ TextsAt(sent) # {}
    /\ recv_end = "finish"
    /\ main_pc = "done" /\ result = "ok"

\* the state Closed of a call: both halves stopped, the socket released,
\* end_input called, the call left
Closed ==
    /\ main_pc = "done" /\ result # "running"
    /\ ~ws_open
    /\ ~Running(send_pc) /\ ~Running(recv_pc)
    /\ Count(emitter, "end_input") = 1

----------------------------------------------------------------------------
(* Properties of the fade-in processor *)

Abs(x) == IF x < 0 THEN -x ELSE x

Aligned(chunk) == Len(chunk) % frame_width = 0
FrameCount(chunk) == Len(chunk) \div frame_width

RECURSIVE TotalFrames(_)
TotalFrames(chunks) ==
    IF chunks = <<>> THEN 0
    ELSE FrameCount(Head(chunks)) + TotalFrames(Tail(chunks))

\* the processor of the call as it was when it was built
Fresh == [fade_processor EXCEPT !.processed_frames = 0]

\* self._processed_frames when the i-th call of process() began
CountBefore(i) == IF i = 1 THEN 0 ELSE counts[i - 1]

AllAligned == \A i \in 1..Len(fed) : Aligned(fed[i])

\* the aligned buffers fed one after the other return, joined, the samples
\* that one call on the joined buffer returns
SplitOutputsAgree ==
    AllAligned => Join(returned) = Processed(Fresh, Join(fed))

\* the counter ends at the total frame count, split or not
SplitCountersAgree ==
    AllAligned =>
        /\ fade_processor.processed_frames = TotalFrames(fed)
        /\ AfterProcess(Fresh, Join(fed)).processed_frames = TotalFrames(fed)

\* C13: fade split-invariance: for a fresh processor and a frame-aligned
\* buffer, feeding the buffer split at frame boundaries into adjacent aligned
\* buffers returns, joined, sample for sample what feeding it unsplit
\* returns, and either way the counter of processed frames ends equal to the
\* total frame count.
C13_SplitInvariance ==
    mode = "fade" => SplitOutputsAgree /\ SplitCountersAgree

\* C14: the counter of processed frames never decreases, and every call of
\* process() advances it by exactly the frame count of the buffer passed,
\* whether the buffer was faded or returned unchanged for any reason.
C14_CounterAdvance ==
    mode = "fade" =>
        \A i \in 1..Len(fed) :
            /\ counts[i] >= CountBefore(i)
            /\ counts[i] = CountBefore(i) + FrameCount(fed[i])

\* the position the processor gives the frame of sample j of the i-th buffer
Position(i, j) == CountBefore(i) + ((j - 1) \div num_channels)

\* C15 as claimed: the frame at position fade_frames - 1 is scaled with
\* factor 1.0 (returned as it came), every frame at or beyond the fade
\* window is returned unchanged, and no sample returned exceeds the magnitude
\* of the sample passed.
C15_BoundaryUnity ==
    mode = "fade" =>
        \A i \in 1..Len(fed) :
            Aligned(fed[i]) =>
                LET ins == FromBytes(fed[i])
                    outs == FromBytes(returned[i])
                IN  \A j \in 1..Len(ins) :
                        /\ Position(i, j) >= fade_processor.fade_frames - 1
                              => outs[j] = ins[j]
                        /\ Abs(outs[j]) <= Abs(ins[j])

\* C15, amended: the frame at position fade_frames - 1 is scaled with factor
\* (fade_frames - 1) / fade_frames, truncated toward zero, and a non-zero
\* sample inside the window is always returned smaller than it came; every
\* frame at or beyond the window is returned unchanged, and no sample
\* returned exceeds the magnitude of the sample passed or changes sign.
C15_Boundary ==
    mode = "fade" =>
        \A i \in 1..Len(fed) :
            Aligned(fed[i]) =>
                LET ins == FromBytes(fed[i])
                    outs == FromBytes(returned[i])
                    F == fade_processor.fade_frames
                IN  \A j \in 1..Len(ins) :
                        /\ Position(i, j) >= F => outs[j] = ins[j]
                        /\ Abs(outs[j]) <= Abs(ins[j])
                        /\ outs[j] * ins[j] >= 0
                        /\ (Position(i, j) < F /\ ins[j] # 0)
                              => Abs(outs[j]) < Abs(ins[j])
                        /\ Position(i, j) = F - 1 =>
                              /\ Abs(outs[j]) * F <= Abs(ins[j]) * (F - 1)
                              /\ Abs(ins[j]) * (F - 1) - Abs(outs[j]) * F < F

\* C15 witness: a window of at least three frames was crossed: a non-zero
\* sample at its last position came back smaller, and a later buffer, wholly
\* beyond the window, came back unchanged
C15_Witness ==
    /\ mode = "fade" /\ fade_processor.fade_frames >= 3
    /\ \E i \in 1..Len(fed) :
          /\ Aligned(fed[i])
          /\ \E j \in 1..Len(FromBytes(fed[i])) :
                /\ Position(i, j) = fade_processor.fade_frames - 1
                /\ FromBytes(fed[i])[j] # 0
                /\ FromBytes(returned[i])[j] # FromBytes(fed[i])[j]
    /\ \E i \in 1..Len(fed) :
          /\ fed[i] # <<>> /\ Aligned(fed[i])
          /\ CountBefore(i) >= fade_processor.fade_frames
          /\ returned[i] = fed[i]

====
